---- MODULE Spec2Model ----
(***************************************************************************)
(* Model of src/distributedsystems.py: a cluster control plane that keeps  *)
(* a node table, a pod table and a settings table in SQLite, places pods   *)
(* on nodes (first_fit / best_fit / worst_fit), fails nodes on heartbeat   *)
(* timeout and reschedules the pods with no node.                          *)
(*                                                                         *)
(* Tables are sequences of rows in rowid order, which is the order of a    *)
(* full-table SELECT without ORDER BY.  Every handler that runs inside     *)
(* `with lock` is one action; launch_pod, which releases the lock between  *)
(* its INSERT and its call of schedule_pod, and auto_reschedule, whose     *)
(* schedule_pod calls can each be preceded by a lock-free set_strategy,    *)
(* are split at exactly those points.                                      *)
(***************************************************************************)
EXTENDS Integers, Sequences, FiniteSets, TLC

VARIABLES
    nodes,        \* table nodes: Seq of [node_id, cpu, last_heartbeat, status]
    pods,         \* table pods : Seq of [pod_id, cpu, node_id, status]
    settings,     \* table settings: [strategy, leader]
    now,          \* time.time(), in ticks of 1/TicksPerUnit seconds
    lock,         \* owner of the RLock while a handler spans several steps
    failed_pods,  \* auto_reschedule: rows of its SELECT not yet handed to schedule_pod
    launching,    \* launch_pod requests between their INSERT and the end of schedule_pod
    total_cpu,    \* history: node_id -> the cpu given to add_node (the capacity)
    resp,         \* the watched step just taken: operation, arguments and result
    watch,        \* the operations whose steps are recorded in resp (fixed by Init)
    scenario      \* what varies in this behaviour: the clock, or the strategy name

vars == <<nodes, pods, settings, now, lock, failed_pods, launching, total_cpu,
          resp, watch, scenario>>

fixed == <<watch, scenario>>

-----------------------------------------------------------------------------
(* Bounds and input domains *)

MaxTicks == 1          \* clock advances in one behaviour
TicksPerUnit == 2      \* clock resolution: ticks per second
MaxInflight == 1       \* launch_pod requests in flight at the same time

NodeIds == {"A", "B"}
PodIds == {"p1", "p2"}
\* Each node id is added with one capacity, each pod id launched with one request.
Capacity(node_id) == IF node_id = "A" THEN 10 ELSE 4
Request(pod_id) == IF pod_id = "p1" THEN 3 ELSE 4
Strategies == {"first_fit", "best_fit", "worst_fit"}
StrategyNames == Strategies \cup {"random"}    \* what a client may post
\* A behaviour lets the clock advance, or lets clients switch between the
\* default strategy and one other name.
Scenarios == {"clock"} \cup (StrategyNames \ {"best_fit"})

(* Program constants *)
Liveness == 30         \* seconds without heartbeat tolerated (lines 162, 332)

NULL == "NULL"         \* SQL NULL / Python None
Window == Liveness * TicksPerUnit

-----------------------------------------------------------------------------
(* Helpers over the tables *)

Range(s) == {s[i] : i \in DOMAIN s}

NodeExists(node_id) == \E i \in DOMAIN nodes : nodes[i].node_id = node_id

RECURSIVE SumCpu(_)
SumCpu(rows) ==
    IF rows = <<>> THEN 0 ELSE Head(rows).cpu + SumCpu(Tail(rows))

\* int(time.time()): truncation to whole seconds
IntTime(t) == (t \div TicksPerUnit) * TicksPerUnit

\* by: the caller of schedule_pod ("launch_pod" or "auto_reschedule"), else NULL
\* A step of an operation that is not watched records only that it was another one.
Other ==
    [op |-> "other", by |-> NULL, id |-> NULL, cpu |-> 0, strategy |-> NULL,
     result |-> NULL]

RespBy(op, by, id, cpu, strategy, result) ==
    IF op \in watch
    THEN [op |-> op, by |-> by, id |-> id, cpu |-> cpu, strategy |-> strategy,
          result |-> result]
    ELSE Other

Resp(op, id, cpu, strategy, result) == RespBy(op, NULL, id, cpu, strategy, result)

\* Faulty variant (handlers that do not wait for the lock): C17 fails for it
LockFree_NoLock == TRUE

LockFree == lock = NULL

-----------------------------------------------------------------------------
(* init_db, lines 15-52 *)

\* ops: the operations whose steps are recorded in resp
Start(ops) ==
    /\ nodes = <<>>
    /\ pods = <<>>
    /\ settings = [strategy |-> "best_fit", leader |-> "none"]
    /\ now = 0
    /\ lock = NULL
    /\ failed_pods = <<>>
    /\ launching = {}
    /\ total_cpu = <<>>
    /\ resp = Other
    /\ watch = ops
    /\ scenario \in Scenarios

Init == Start({})
InitPlace == Start({"schedule_pod"})
InitLaunch == Start({"launch_pod"})
InitLeader == Start({"leader"})
InitDetector == Start({"heartbeat_checker"})
InitRequests == Start({"heartbeat", "fail_node", "recover_node", "set_strategy"})

-----------------------------------------------------------------------------
(* add_node, lines 125-133.  node_id is the PRIMARY KEY: the INSERT of an  *)
(* existing id raises sqlite3.IntegrityError and nothing is stored.        *)

add_node(node_id, cpu) ==
    /\ LockFree
    /\ IF NodeExists(node_id)
       THEN /\ UNCHANGED <<nodes, total_cpu>>
            /\ resp' = Resp("add_node", node_id, 0, NULL, "IntegrityError")
       ELSE /\ nodes' = Append(nodes, [node_id |-> node_id, cpu |-> cpu,
                                       last_heartbeat |-> now, status |-> "healthy"])
            /\ total_cpu' = [n \in DOMAIN total_cpu \cup {node_id} |->
                                IF n = node_id THEN cpu ELSE total_cpu[n]]
            /\ resp' = Resp("add_node", node_id, cpu, NULL, "added")
    /\ UNCHANGED <<pods, settings, now, lock, failed_pods, launching, fixed>>

(* remove_node, lines 267-282 *)
remove_node(node_id) ==
    /\ LockFree
    /\ IF ~NodeExists(node_id)
       THEN /\ UNCHANGED <<nodes, total_cpu>>
            /\ resp' = Resp("remove_node", node_id, 0, NULL, "not found")
       ELSE /\ nodes' = SelectSeq(nodes, LAMBDA n : n.node_id # node_id)
            /\ total_cpu' = [n \in DOMAIN total_cpu \ {node_id} |-> total_cpu[n]]
            /\ resp' = Resp("remove_node", node_id, 0, NULL, "removed")
    /\ UNCHANGED <<pods, settings, now, lock, failed_pods, launching, fixed>>

-----------------------------------------------------------------------------
(* schedule_pod, lines 66-109 *)

\* Faulty variant (the WHERE clause forgotten): C2 fails for it
HealthyNodes_NoFilter(ns) == ns

\* line 70: SELECT node_id, cpu, status FROM nodes WHERE status = 'healthy'
HealthyNodes(ns) == SelectSeq(ns, LAMBDA n : n.status = "healthy")

\* Faulty variant (the break forgotten, the last fitting row wins): C7 fails for it
RECURSIVE FirstFit_NoBreak(_, _, _)
FirstFit_NoBreak(hs, i, cpu_req) ==
    IF i > Len(hs) THEN NULL
    ELSE LET later == FirstFit_NoBreak(hs, i + 1, cpu_req) IN
         IF later # NULL THEN later
         ELSE IF hs[i].cpu >= cpu_req THEN hs[i].node_id ELSE NULL

\* lines 75-79: the first row with cpu >= cpu_req
RECURSIVE FirstFit(_, _, _)
FirstFit(hs, i, cpu_req) ==
    IF i > Len(hs) THEN NULL
    ELSE IF hs[i].cpu >= cpu_req THEN hs[i].node_id
    ELSE FirstFit(hs, i + 1, cpu_req)

Inf == -1   \* stands for float("inf"): every cpu is below it
\* Faulty variant (<= for <, the last of equal rows wins): C5 fails for it
BelowMin_OrEqual(cpu, min_cpu) == min_cpu = Inf \/ cpu <= min_cpu

\* line 85: cpu < min_cpu
BelowMin(cpu, min_cpu) == min_cpu = Inf \/ cpu < min_cpu

\* Faulty variant (the test cpu >= cpu_req forgotten): C4 fails for it
RECURSIVE BestFit_NoCapacityTest(_, _, _, _, _)
BestFit_NoCapacityTest(hs, i, cpu_req, min_cpu, best_node) ==
    IF i > Len(hs) THEN best_node
    ELSE IF BelowMin(hs[i].cpu, min_cpu)
         THEN BestFit_NoCapacityTest(hs, i + 1, cpu_req, hs[i].cpu, hs[i].node_id)
         ELSE BestFit_NoCapacityTest(hs, i + 1, cpu_req, min_cpu, best_node)

\* lines 81-88: the loop over the rows with its running (min_cpu, best_node)
RECURSIVE BestFit(_, _, _, _, _)
BestFit(hs, i, cpu_req, min_cpu, best_node) ==
    IF i > Len(hs) THEN best_node
    ELSE IF hs[i].cpu >= cpu_req /\ BelowMin(hs[i].cpu, min_cpu)
         THEN BestFit(hs, i + 1, cpu_req, hs[i].cpu, hs[i].node_id)
         ELSE BestFit(hs, i + 1, cpu_req, min_cpu, best_node)

\* lines 90-97: the loop over the rows with its running (max_leftover, worst_node)
RECURSIVE WorstFit(_, _, _, _, _)
WorstFit(hs, i, cpu_req, max_leftover, worst_node) ==
    IF i > Len(hs) THEN worst_node
    ELSE IF hs[i].cpu >= cpu_req /\ (hs[i].cpu - cpu_req) > max_leftover
         THEN WorstFit(hs, i + 1, cpu_req, hs[i].cpu - cpu_req, hs[i].node_id)
         ELSE WorstFit(hs, i + 1, cpu_req, max_leftover, worst_node)

\* Faulty variant (max_leftover starts at 0, not -1): C6 fails for it
SelectNode_LeftoverFromZero(strategy, hs, cpu_req) ==
    CASE strategy = "first_fit" -> FirstFit(hs, 1, cpu_req)
      [] strategy = "best_fit"  -> BestFit(hs, 1, cpu_req, Inf, NULL)
      [] strategy = "worst_fit" -> WorstFit(hs, 1, cpu_req, 0, NULL)
      [] OTHER -> NULL

\* lines 73-97: a strategy that is none of the three leaves assigned_node = None
SelectNode(strategy, hs, cpu_req) ==
    CASE strategy = "first_fit" -> FirstFit(hs, 1, cpu_req)
      [] strategy = "best_fit"  -> BestFit(hs, 1, cpu_req, Inf, NULL)
      [] strategy = "worst_fit" -> WorstFit(hs, 1, cpu_req, -1, NULL)
      [] OTHER -> NULL

\* lines 100-103: UPDATE nodes SET cpu = cpu - cpu_req WHERE node_id = assigned_node
Deduct(ns, assigned_node, cpu_req) ==
    [i \in DOMAIN ns |->
        IF ns[i].node_id = assigned_node
        THEN [ns[i] EXCEPT !.cpu = @ - cpu_req] ELSE ns[i]]

\* line 104: UPDATE pods SET node_id = ?, status = 'running' WHERE pod_id = ?
Assign(ps, pod_id, assigned_node) ==
    [i \in DOMAIN ps |->
        IF ps[i].pod_id = pod_id
        THEN [ps[i] EXCEPT !.node_id = assigned_node, !.status = "running"]
        ELSE ps[i]]

\* lines 68-109, with the strategy read at line 67
schedule_pod(by, pod_id, cpu_req, strategy) ==
    LET assigned_node == SelectNode(strategy, HealthyNodes(nodes), cpu_req) IN
    /\ IF assigned_node # NULL
       THEN /\ nodes' = Deduct(nodes, assigned_node, cpu_req)
            /\ pods' = Assign(pods, pod_id, assigned_node)
       ELSE UNCHANGED <<nodes, pods>>
    /\ resp' = RespBy("schedule_pod", by, pod_id, cpu_req, strategy, assigned_node)

-----------------------------------------------------------------------------
(* launch_pod, lines 149-176 *)

\* Faulty variant (WHERE status = 'healthy' for the heartbeat window): C9 fails for it
TotalAvailableCpu_Healthy(ns, current_time) == SumCpu(HealthyNodes(ns))

\* line 162: SELECT SUM(cpu) FROM nodes WHERE ? - last_heartbeat <= 30  (or 0)
TotalAvailableCpu(ns, current_time) ==
    SumCpu(SelectSeq(ns, LAMBDA n : current_time - n.last_heartbeat <= Window))

\* Faulty variant (only running pods count as existing): C10 fails for it
AlreadyExists_Running(ps, pod_id) ==
    \E i \in DOMAIN ps : ps[i].pod_id = pod_id /\ ps[i].status = "running"

\* lines 157-158: SELECT 1 FROM pods WHERE pod_id = ?
AlreadyExists(ps, pod_id) == \E i \in DOMAIN ps : ps[i].pod_id = pod_id

\* lines 155-170: duplicate check, admission check, INSERT; the lock is released
launch_pod(pod_id, cpu_req) ==
    /\ LockFree
    /\ IF AlreadyExists(pods, pod_id)
       THEN /\ UNCHANGED <<pods, launching>>
            /\ resp' = Resp("launch_pod", pod_id, cpu_req, NULL, "already exists")
       ELSE IF TotalAvailableCpu(nodes, now) < cpu_req
       THEN /\ UNCHANGED <<pods, launching>>
            /\ resp' = Resp("launch_pod", pod_id, cpu_req, NULL,
                            "Insufficient cluster-wide resources")
       ELSE /\ Cardinality(launching) < MaxInflight
            /\ pods' = Append(pods, [pod_id |-> pod_id, cpu |-> cpu_req,
                                     node_id |-> NULL, status |-> "pending"])
            /\ launching' = launching \cup
                   {[pod_id |-> pod_id, cpu |-> cpu_req,
                     pc |-> "get_current_strategy", strategy |-> NULL]}
            /\ resp' = Resp("launch_pod", pod_id, cpu_req, NULL, "inserted")
    /\ UNCHANGED <<nodes, settings, now, lock, failed_pods, total_cpu, fixed>>

\* line 172 -> line 67: the strategy is read before the lock is taken
launch_get_current_strategy(l) ==
    /\ l.pc = "get_current_strategy"
    /\ launching' = (launching \ {l}) \cup
           {[l EXCEPT !.pc = "schedule_pod", !.strategy = settings.strategy]}
    /\ resp' = Resp("get_current_strategy", l.pod_id, l.cpu, settings.strategy, NULL)
    /\ UNCHANGED <<nodes, pods, settings, now, lock, failed_pods, total_cpu, fixed>>

\* line 172 -> lines 68-109
launch_schedule_pod(l) ==
    /\ l.pc = "schedule_pod"
    /\ LockFree
    /\ schedule_pod("launch_pod", l.pod_id, l.cpu, l.strategy)
    /\ launching' = launching \ {l}
    /\ UNCHANGED <<settings, now, lock, failed_pods, total_cpu, fixed>>

-----------------------------------------------------------------------------
(* auto_reschedule, lines 111-122.  The lock is held from the SELECT to    *)
(* the last schedule_pod; only the lock-free handlers run in between.      *)

\* line 117: SELECT pod_id, cpu FROM pods WHERE node_id IS NULL
PendingRows(ps) ==
    LET rows == SelectSeq(ps, LAMBDA p : p.node_id = NULL) IN
    [i \in DOMAIN rows |-> [pod_id |-> rows[i].pod_id, cpu |-> rows[i].cpu]]

auto_reschedule ==
    /\ LockFree
    /\ failed_pods' = PendingRows(pods)
    /\ lock' = IF failed_pods' = <<>> THEN NULL ELSE "auto_reschedule"
    /\ resp' = Resp("auto_reschedule", NULL, 0, NULL, Len(failed_pods'))
    /\ UNCHANGED <<nodes, pods, settings, now, launching, total_cpu, fixed>>

\* lines 119-120: one iteration; schedule_pod reads the stored strategy itself
auto_reschedule_pod ==
    /\ lock = "auto_reschedule"
    /\ schedule_pod("auto_reschedule", Head(failed_pods).pod_id,
                    Head(failed_pods).cpu, settings.strategy)
    /\ failed_pods' = Tail(failed_pods)
    /\ lock' = IF failed_pods' = <<>> THEN NULL ELSE lock
    /\ UNCHANGED <<settings, now, launching, total_cpu, fixed>>

-----------------------------------------------------------------------------
(* Node health: fail_node, recover_node, heartbeat and the background loops *)

\* lines 291, 336: UPDATE nodes SET status = 'unhealthy' WHERE node_id = ?
MarkUnhealthy(ns, ids) ==
    [i \in DOMAIN ns |->
        IF ns[i].node_id \in ids THEN [ns[i] EXCEPT !.status = "unhealthy"] ELSE ns[i]]

\* Faulty variant (the pods of a failed node stay on it): C19 fails for it
Evict_Nothing(ps, ids) == ps

\* lines 292, 337: UPDATE pods SET node_id = NULL, status = 'pending' WHERE node_id = ?
Evict(ps, ids) ==
    [i \in DOMAIN ps |->
        IF ps[i].node_id \in ids
        THEN [ps[i] EXCEPT !.node_id = NULL, !.status = "pending"] ELSE ps[i]]

\* fail_node, lines 285-295: both UPDATEs run whether or not the node exists
fail_node(node_id) ==
    /\ LockFree
    /\ nodes' = MarkUnhealthy(nodes, {node_id})
    /\ pods' = Evict(pods, {node_id})
    /\ resp' = Resp("fail_node", node_id, 0, NULL, "failed")
    /\ UNCHANGED <<settings, now, lock, failed_pods, launching, total_cpu, fixed>>

\* lines 303-304: UPDATE nodes SET status = 'healthy', last_heartbeat = now
MarkHealthy(ns, node_id, t) ==
    [i \in DOMAIN ns |->
        IF ns[i].node_id = node_id
        THEN [ns[i] EXCEPT !.status = "healthy", !.last_heartbeat = t] ELSE ns[i]]

\* recover_node, lines 297-307
recover_node(node_id) ==
    /\ LockFree
    /\ nodes' = MarkHealthy(nodes, node_id, now)
    /\ resp' = Resp("recover_node", node_id, 0, NULL, "healthy again")
    /\ UNCHANGED <<pods, settings, now, lock, failed_pods, launching, total_cpu, fixed>>

\* lines 318-321: UPDATE nodes SET last_heartbeat = int(time.time()) WHERE node_id = ?
Beat(ns, node_id, t) ==
    [i \in DOMAIN ns |->
        IF ns[i].node_id = node_id
        THEN [ns[i] EXCEPT !.last_heartbeat = IntTime(t)] ELSE ns[i]]

\* heartbeat, lines 309-324 (a request that names a node)
heartbeat(node) ==
    /\ LockFree
    /\ nodes' = Beat(nodes, node, now)
    /\ resp' = Resp("heartbeat", node, 0, NULL, "received")
    /\ UNCHANGED <<pods, settings, now, lock, failed_pods, launching, total_cpu, fixed>>

\* Faulty variant (the WHERE clause dropped): C16 fails for it
TimedOut_All(ns, t) == {n.node_id : n \in Range(ns)}

\* line 332: SELECT node_id FROM nodes WHERE ? - last_heartbeat > 30
TimedOut(ns, t) == {n.node_id : n \in {m \in Range(ns) : t - m.last_heartbeat > Window}}

\* heartbeat_checker, lines 327-338: one iteration of the loop
heartbeat_checker ==
    /\ LockFree
    /\ nodes' = MarkUnhealthy(nodes, TimedOut(nodes, now))
    /\ pods' = Evict(pods, TimedOut(nodes, now))
    /\ resp' = Resp("heartbeat_checker", NULL, 0, NULL, NULL)
    /\ UNCHANGED <<settings, now, lock, failed_pods, launching, total_cpu, fixed>>

\* auto_heartbeat, lines 340-346: UPDATE nodes SET last_heartbeat = now
auto_heartbeat ==
    /\ LockFree
    /\ nodes' = [i \in DOMAIN nodes |-> [nodes[i] EXCEPT !.last_heartbeat = now]]
    /\ resp' = Resp("auto_heartbeat", NULL, 0, NULL, NULL)
    /\ UNCHANGED <<pods, settings, now, lock, failed_pods, launching, total_cpu, fixed>>

-----------------------------------------------------------------------------
(* Settings: set_strategy (lines 213-229, takes no lock) and leader        *)

\* line 215: request.json.get("strategy", "best_fit"); NULL is a body without the key
RequestedStrategy(name) == IF name = NULL THEN "best_fit" ELSE name

set_strategy(name) ==
    /\ scenario # "clock"
    /\ settings' = [settings EXCEPT !.strategy = RequestedStrategy(name)]
    /\ resp' = Resp("set_strategy", NULL, 0, RequestedStrategy(name), NULL)
    /\ UNCHANGED <<nodes, pods, now, lock, failed_pods, launching, total_cpu, fixed>>

\* Faulty variant (the recorded leader is never found healthy): C11 fails for it
IsHealthyNode_Never(ns, node_id) == FALSE

\* line 190: SELECT 1 FROM nodes WHERE node_id = ? AND status = 'healthy'
IsHealthyNode(ns, node_id) ==
    \E n \in Range(ns) : n.node_id = node_id /\ n.status = "healthy"

\* The ids of the model are single letters: their text order is their order here
IdBefore(a, b) == \/ a = b
                  \/ a = "A"

\* Faulty variant (ORDER BY node_id DESC): C12 fails for it
NewLeader_Largest(ns) ==
    LET healthy == {n.node_id : n \in Range(HealthyNodes(ns))} IN
    IF healthy = {} THEN "none"
    ELSE CHOOSE a \in healthy : \A b \in healthy : IdBefore(b, a)

\* line 196: SELECT node_id FROM nodes WHERE status='healthy' ORDER BY node_id ASC LIMIT 1
NewLeader(ns) ==
    LET healthy == {n.node_id : n \in Range(HealthyNodes(ns))} IN
    IF healthy = {} THEN "none"
    ELSE CHOOSE a \in healthy : \A b \in healthy : IdBefore(a, b)

\* leader, lines 178-208
leader ==
    /\ LockFree
    /\ IF IsHealthyNode(nodes, settings.leader)
       THEN /\ UNCHANGED settings
            /\ resp' = Resp("leader", NULL, 0, NULL, settings.leader)
       ELSE /\ settings' = [settings EXCEPT !.leader = NewLeader(nodes)]
            /\ resp' = Resp("leader", NULL, 0, NULL, NewLeader(nodes))
    /\ UNCHANGED <<nodes, pods, now, lock, failed_pods, launching, total_cpu, fixed>>

-----------------------------------------------------------------------------
(* The clock.  Time passes in whole steps: the first is one second more   *)
(* than the liveness window (a node not heard of since 0 is then timed     *)
(* out), each later one is exactly the window.                             *)

FirstStep == Window + TicksPerUnit
ClockSteps(t) == IF t = 0 THEN 0 ELSE 1 + (t - FirstStep) \div Window
StepLength(t) == IF t = 0 THEN FirstStep ELSE Window

Tick ==
    /\ scenario = "clock"
    /\ ClockSteps(now) < MaxTicks
    /\ now' = now + StepLength(now)
    /\ resp' = Resp("tick", NULL, 0, NULL, NULL)
    /\ UNCHANGED <<nodes, pods, settings, lock, failed_pods, launching, total_cpu, fixed>>

\* The steps of the cluster.  leader reads and writes settings.leader only,
\* which no other handler reads, so it has its own steps (NextLeader); scale
\* (lines 135-147) is add_node with generated ids; the remaining endpoints
\* (get_strategy, metrics, list_nodes, pod_usage) only read.
Next ==
    \/ \E n \in NodeIds : add_node(n, Capacity(n))
    \/ \E n \in NodeIds : remove_node(n)
    \/ \E p \in PodIds : launch_pod(p, Request(p))
    \/ \E l \in launching : launch_get_current_strategy(l)
    \/ \E l \in launching : launch_schedule_pod(l)
    \/ auto_reschedule
    \/ auto_reschedule_pod
    \/ \E n \in NodeIds : fail_node(n)
    \/ \E n \in NodeIds : recover_node(n)
    \/ \E n \in NodeIds : heartbeat(n)
    \/ heartbeat_checker
    \/ auto_heartbeat
    \/ \E name \in {scenario, "best_fit", NULL} : set_strategy(name)
    \/ Tick

Spec == Init /\ [][Next]_vars

\* The same behaviours, with the steps of schedule_pod recorded in resp
SpecPlace == InitPlace /\ [][Next]_vars

\* The same behaviours, with the steps of launch_pod (lines 155-170) recorded in resp
SpecLaunch == InitLaunch /\ [][Next]_vars

\* The same behaviours, with the sweeps of heartbeat_checker recorded in resp
SpecDetector == InitDetector /\ [][Next]_vars

\* The same behaviours, with the steps of heartbeat, fail_node, recover_node and
\* set_strategy recorded in resp
SpecRequests == InitRequests /\ [][Next]_vars

\* leader reads the ids and the status of the nodes and settings.leader, nothing
\* else; these are the steps that write one of them, and the clock with the
\* heartbeats, on which heartbeat_checker depends.
NextLeader ==
    \/ \E n \in NodeIds : add_node(n, Capacity(n))
    \/ \E n \in NodeIds : remove_node(n)
    \/ \E n \in NodeIds : fail_node(n)
    \/ \E n \in NodeIds : recover_node(n)
    \/ \E n \in NodeIds : heartbeat(n)
    \/ heartbeat_checker
    \/ auto_heartbeat
    \/ Tick
    \/ leader

SpecLeader == InitLeader /\ [][NextLeader]_vars
-----------------------------------------------------------------------------
(* Vocabulary of the properties, written over the tables only *)

\* sum of f over a finite set of indices
RECURSIVE SumOver(_, _)
SumOver(S, f) ==
    IF S = {} THEN 0
    ELSE LET i == CHOOSE j \in S : TRUE IN f[i] + SumOver(S \ {i}, f)

\* the cpu requested by the pods assigned to node_id
AssignedCpu(node_id) ==
    SumOver({i \in DOMAIN pods : pods[i].node_id = node_id},
            [i \in DOMAIN pods |-> pods[i].cpu])

Healthy(n) == n.status = "healthy"
Pending(p) == p.node_id = NULL
Running(p) == p.status = "running"

-----------------------------------------------------------------------------
(* C1: every healthy node's available cpu is its capacity minus the cpu    *)
(* requested by the pods assigned to it.                                   *)
C1_AvailableIsCapacityMinusAssigned ==
    \A n \in Range(nodes) :
        Healthy(n) => n.cpu = total_cpu[n.node_id] - AssignedCpu(n.node_id)

(* C2: a pod is running exactly when it has an assigned node, and a pod    *)
(* is only ever assigned to a node that was healthy when it was assigned.  *)
RunningIffAssigned == \A p \in Range(pods) : Running(p) <=> p.node_id # NULL

AssignedInStep(i) ==
    /\ pods'[i].node_id # NULL
    /\ i \in DOMAIN pods => pods[i].node_id # pods'[i].node_id

C2_RunningIffAssignedToHealthy ==
    /\ []RunningIffAssigned
    /\ [][\A i \in DOMAIN pods' :
            AssignedInStep(i) =>
                \E n \in Range(nodes) : n.node_id = pods'[i].node_id /\ Healthy(n)]_vars

\* one pod running on a healthy node, another one back to pending on a failed node
C2_Witness ==
    /\ \E p \in Range(pods) : \E n \in Range(nodes) :
           Running(p) /\ p.node_id = n.node_id /\ Healthy(n)
    /\ \E q \in Range(pods) : \E m \in Range(nodes) :
           Pending(q) /\ ~Healthy(m) /\ m.cpu = total_cpu[m.node_id] - q.cpu

(* C3: every assigned pod references a node that is in the node table.     *)
C3_AssignedNodeExists ==
    \A p \in Range(pods) : p.node_id # NULL => NodeExists(p.node_id)

(* C4: every node's available cpu stays between 0 and its capacity.        *)
C4_AvailableWithinCapacity ==
    \A n \in Range(nodes) : 0 <= n.cpu /\ n.cpu <= total_cpu[n.node_id]

\* a node used up to its last cpu while a launch_pod request is in flight
C4_Witness ==
    \E n \in Range(nodes) :
        /\ n.cpu = 0
        /\ AssignedCpu(n.node_id) > 0
        /\ launching # {}

-----------------------------------------------------------------------------
(* Place: the step of schedule_pod recorded in resp', seen from the state  *)
(* before it.                                                              *)

PlaceStep(strategy) == resp'.op = "schedule_pod" /\ resp'.strategy = strategy

\* the rows of the healthy nodes with enough available cpu for the request
Feasible(r) == {i \in DOMAIN nodes : Healthy(nodes[i]) /\ nodes[i].cpu >= r}

\* row i loses r cpu, the pod runs on it, and nothing else changes in the tables
PlacedOn(i, pod_id, r) ==
    /\ resp'.result = nodes[i].node_id
    /\ nodes' = [nodes EXCEPT ![i].cpu = nodes[i].cpu - r]
    /\ DOMAIN pods' = DOMAIN pods
    /\ \A j \in DOMAIN pods :
          IF pods[j].pod_id = pod_id
          THEN /\ pods'[j].node_id = nodes[i].node_id
               /\ Running(pods'[j])
               /\ pods'[j].cpu = pods[j].cpu
          ELSE pods'[j] = pods[j]

NotPlaced == resp'.result = NULL /\ UNCHANGED <<nodes, pods>>

(* C5: best_fit places the pod on the feasible node with the least         *)
(* available cpu, the first such row on ties, and deducts the request.     *)
C5_BestFit ==
    [][PlaceStep("best_fit") /\ Feasible(resp'.cpu) # {} =>
         \E i \in Feasible(resp'.cpu) :
            /\ \A j \in Feasible(resp'.cpu) :
                  \/ nodes[i].cpu < nodes[j].cpu
                  \/ nodes[i].cpu = nodes[j].cpu /\ i <= j
            /\ PlacedOn(i, resp'.id, resp'.cpu)]_vars

\* A (10 free) and B (4 free) healthy, request 3: placed on B, which keeps 1
C5_Witness ==
    /\ resp.op = "schedule_pod" /\ resp.strategy = "best_fit"
    /\ resp.cpu = 3 /\ resp.result = "B"
    /\ \E a, b \in Range(nodes) :
          /\ a.node_id = "A" /\ Healthy(a) /\ a.cpu = 10
          /\ b.node_id = "B" /\ Healthy(b) /\ b.cpu = 1

(* C6: worst_fit places the pod on the feasible node with the largest      *)
(* leftover, the first such row on ties, also when that leftover is 0.     *)
C6_WorstFit ==
    [][PlaceStep("worst_fit") /\ Feasible(resp'.cpu) # {} =>
         \E i \in Feasible(resp'.cpu) :
            /\ \A j \in Feasible(resp'.cpu) :
                  \/ nodes[i].cpu - resp'.cpu > nodes[j].cpu - resp'.cpu
                  \/ nodes[i].cpu = nodes[j].cpu /\ i <= j
            /\ PlacedOn(i, resp'.id, resp'.cpu)]_vars

\* A (10 free) and B (4 free) healthy, request 3: placed on A, which keeps 7
C6_Witness ==
    /\ resp.op = "schedule_pod" /\ resp.strategy = "worst_fit"
    /\ resp.cpu = 3 /\ resp.result = "A"
    /\ \E a, b \in Range(nodes) :
          /\ a.node_id = "A" /\ Healthy(a) /\ a.cpu = 7
          /\ b.node_id = "B" /\ Healthy(b) /\ b.cpu = 4

(* C7: first_fit selects the first feasible row; under every strategy a    *)
(* request no healthy node can hold returns none and changes no row.       *)
C7_FirstFitAndNone ==
    [][/\ PlaceStep("first_fit") /\ Feasible(resp'.cpu) # {} =>
            \E i \in Feasible(resp'.cpu) :
               /\ \A j \in Feasible(resp'.cpu) : i <= j
               /\ resp'.result = nodes[i].node_id
       /\ resp'.op = "schedule_pod" /\ Feasible(resp'.cpu) = {} => NotPlaced]_vars

\* first_fit passed over the first row, healthy but too small, and took the second
C7_Witness ==
    /\ resp.op = "schedule_pod" /\ resp.strategy = "first_fit"
    /\ Len(nodes) = 2
    /\ Healthy(nodes[1]) /\ nodes[1].cpu < resp.cpu
    /\ resp.result = nodes[2].node_id

-----------------------------------------------------------------------------
(* C8: when a sweep of auto_reschedule ends (the lock is released), no     *)
(* pending pod is left that some healthy node has the cpu for.             *)
Placeable(ps, ns) ==
    \E p \in Range(ps) : \E n \in Range(ns) :
        Pending(p) /\ Healthy(n) /\ n.cpu >= p.cpu

C8_SweepPlacesWhatFits ==
    [][lock = "auto_reschedule" /\ lock' = NULL => ~Placeable(pods', nodes')]_vars

-----------------------------------------------------------------------------
(* launch_pod: the step of lines 155-170 recorded in resp', seen from the  *)
(* state before it.                                                        *)

Insufficient == "Insufficient cluster-wide resources"

Known(pod_id) == \E p \in Range(pods) : p.pod_id = pod_id

\* the available cpu of the nodes heard of in the last Liveness seconds
WithinWindow(n) == now - n.last_heartbeat <= Liveness * TicksPerUnit
WindowCpu ==
    SumOver({i \in DOMAIN nodes : WithinWindow(nodes[i])},
            [i \in DOMAIN nodes |-> nodes[i].cpu])

(* C9: a launch of a new pod id is refused for lack of capacity exactly    *)
(* when the nodes within the heartbeat window, healthy or not, have less   *)
(* available cpu in total than requested; then no row changes and no       *)
(* placement is started.                                                   *)
C9_AdmissionGate ==
    [][resp'.op = "launch_pod" /\ ~Known(resp'.id) =>
         /\ resp'.result = Insufficient <=> WindowCpu < resp'.cpu
         /\ resp'.result = Insufficient => UNCHANGED <<nodes, pods, launching>>]_vars

\* refused although a healthy node has the cpu: its heartbeat is too old to count
C9_Witness ==
    /\ resp.op = "launch_pod" /\ resp.result = Insufficient
    /\ ~Known(resp.id)
    /\ \E n \in Range(nodes) : Healthy(n) /\ n.cpu >= resp.cpu /\ ~WithinWindow(n)
    /\ \E m \in Range(nodes) : WithinWindow(m) /\ m.cpu > 0

(* C10: a launch with a pod id that is already in the pod table is refused *)
(* as a duplicate and changes no node and no pod.                          *)
C10_DuplicatePod ==
    [][resp'.op = "launch_pod" /\ Known(resp'.id) =>
         /\ resp'.result = "already exists"
         /\ UNCHANGED <<nodes, pods, launching>>]_vars

\* a duplicate of a pod that is still pending was refused
C10_Witness ==
    /\ resp.op = "launch_pod" /\ resp.result = "already exists"
    /\ \E p \in Range(pods) : p.pod_id = resp.id /\ Pending(p)
    /\ \E n \in Range(nodes) : Healthy(n) /\ n.cpu >= resp.cpu

-----------------------------------------------------------------------------
(* Leader election *)

HealthyIds == {n.node_id : n \in {m \in Range(nodes) : Healthy(m)}}

(* C11: when the recorded leader is an existing healthy node, leader       *)
(* returns it and leaves the record as it is, also when a healthy node     *)
(* with a smaller id exists.                                               *)
C11_StickyLeader ==
    [][resp'.op = "leader" /\ settings.leader \in HealthyIds =>
         /\ resp'.result = settings.leader
         /\ settings' = settings]_vars

\* leader B was returned and kept while A, with the smaller id, is healthy
C11_Witness ==
    /\ resp.op = "leader" /\ resp.result = "B" /\ settings.leader = "B"
    /\ {"A", "B"} \subseteq HealthyIds

(* C12: when the recorded leader is unset, removed or unhealthy, leader    *)
(* returns and records the smallest id among the healthy nodes, or none    *)
(* when no node is healthy; whatever it returns besides none is the id of  *)
(* an existing healthy node.                                               *)
C12_ElectSmallestHealthy ==
    [][resp'.op = "leader" =>
         /\ settings.leader \notin HealthyIds =>
               /\ settings'.leader = resp'.result
               /\ IF HealthyIds = {} THEN resp'.result = "none"
                  ELSE /\ resp'.result \in HealthyIds
                       /\ \A b \in HealthyIds : IdBefore(resp'.result, b)
         /\ resp'.result # "none" => resp'.result \in HealthyIds]_vars

\* the recorded leader A had failed: B, the only healthy node, was elected
C12_Witness ==
    /\ resp.op = "leader" /\ resp.result = "B" /\ settings.leader = "B"
    /\ \E a \in Range(nodes) : a.node_id = "A" /\ ~Healthy(a)

-----------------------------------------------------------------------------
(* Requests that name a node, and set_strategy *)

(* C13: heartbeat on an existing node sets its last_heartbeat to now and   *)
(* its status to healthy.                                                  *)
C13_HeartbeatRevives ==
    [][resp'.op = "heartbeat" /\ NodeExists(resp'.id) =>
         \A i \in DOMAIN nodes : nodes[i].node_id = resp'.id =>
            /\ nodes'[i].last_heartbeat = now
            /\ nodes'[i].status = "healthy"]_vars

(* C14: heartbeat, fail_node and recover_node with an id that is not in    *)
(* the node table answer NodeNotFound and change no node and no pod row.   *)
C14_NodeNotFound ==
    [][resp'.op \in {"heartbeat", "fail_node", "recover_node"}
       /\ ~NodeExists(resp'.id) =>
         /\ resp'.result = "NodeNotFound"
         /\ UNCHANGED <<nodes, pods>>]_vars

(* C15: set_strategy with a name outside first_fit, best_fit, worst_fit    *)
(* leaves best_fit as the stored strategy.                                 *)
C15_UnknownStrategyIsBestFit ==
    [][resp'.op = "set_strategy" /\ resp'.strategy \notin Strategies =>
         settings'.strategy = "best_fit"]_vars

-----------------------------------------------------------------------------
(* The failure detector *)

OnNode(p, n) == p.node_id = n.node_id

(* C16: one sweep of heartbeat_checker is one step; it marks unhealthy     *)
(* every healthy node not heard of for more than 30 seconds and sets the   *)
(* pods assigned to such a node to pending with no node; the nodes heard   *)
(* of within 30 seconds, and the pods assigned to them, stay as they are.  *)
C16_DetectorSweep ==
    [][resp'.op = "heartbeat_checker" =>
         /\ DOMAIN nodes' = DOMAIN nodes /\ DOMAIN pods' = DOMAIN pods
         /\ \A i \in DOMAIN nodes :
               IF WithinWindow(nodes[i])
               THEN nodes'[i] = nodes[i]
               ELSE Healthy(nodes[i]) =>
                       /\ nodes'[i].node_id = nodes[i].node_id
                       /\ nodes'[i].status = "unhealthy"
         /\ \A j \in DOMAIN pods : \A n \in Range(nodes) :
               OnNode(pods[j], n) =>
                  IF WithinWindow(n)
                  THEN pods'[j] = pods[j]
                  ELSE Healthy(n) =>
                          /\ pods'[j].pod_id = pods[j].pod_id
                          /\ pods'[j].node_id = NULL
                          /\ pods'[j].status = "pending"]_vars

\* after a sweep: a timed-out node is unhealthy and the pod it held is pending,
\* while a node heard of in time is healthy and still holds its running pod
C16_Witness ==
    /\ resp.op = "heartbeat_checker"
    /\ \E a, b \in Range(nodes) : \E p, q \in Range(pods) :
          /\ ~WithinWindow(a) /\ ~Healthy(a)
          /\ Pending(p) /\ a.cpu = total_cpu[a.node_id] - p.cpu
          /\ WithinWindow(b) /\ Healthy(b)
          /\ Running(q) /\ OnNode(q, b)

-----------------------------------------------------------------------------
(* Placement under concurrency *)

(* C17: the selection, the deduction and the assignment of one placement   *)
(* are one step: the node a placement returns is, in the state the         *)
(* deduction is applied to, healthy with at least the requested cpu, and   *)
(* while the rescheduler holds the lock between its placements no other    *)
(* step changes a node or a pod row.                                       *)
C17_PlaceIsAtomic ==
    [][/\ resp'.op = "schedule_pod" /\ resp'.result # NULL =>
            \E i \in Feasible(resp'.cpu) : PlacedOn(i, resp'.id, resp'.cpu)
       /\ lock = "auto_reschedule" /\ resp'.op # "schedule_pod" =>
            UNCHANGED <<nodes, pods>>]_vars

\* the rescheduler has placed one pod and still holds the lock for the next one,
\* while a launch_pod request waits between its INSERT and its placement
C17_Witness ==
    /\ resp.op = "schedule_pod" /\ resp.by = "auto_reschedule" /\ resp.result # NULL
    /\ lock = "auto_reschedule" /\ failed_pods # <<>>
    /\ launching # {}

(* C18: a placement is never applied to a pod that is already running, so  *)
(* the cpu of a running pod is deducted once.                              *)
C18_PlacedOncePerPendingPeriod ==
    [][resp'.op = "schedule_pod" /\ resp'.result # NULL =>
         \A p \in Range(pods) : p.pod_id = resp'.id => Pending(p)]_vars

-----------------------------------------------------------------------------
(* Pods and the nodes they are assigned to *)

(* C19: no pod is assigned to a node of the node table that is unhealthy.  *)
C19_NoPodOnUnhealthyNode ==
    \A p \in Range(pods) : \A n \in Range(nodes) : OnNode(p, n) => Healthy(n)

\* a node was failed with a pod on it: the node is unhealthy, the pod pending,
\* and another pod runs on the other, healthy node
C19_Witness ==
    \E a, b \in Range(nodes) : \E p, q \in Range(pods) :
        /\ ~Healthy(a) /\ Pending(p) /\ a.cpu = total_cpu[a.node_id] - p.cpu
        /\ Healthy(b) /\ Running(q) /\ OnNode(q, b)

(* C20: on every node of the node table the pods assigned to it request    *)
(* no more cpu in total than the node's capacity.                          *)
C20_NoOverCommitment ==
    \A n \in Range(nodes) : AssignedCpu(n.node_id) <= total_cpu[n.node_id]

====
